---- MODULE Spec2Model ----
(***************************************************************************)
(* Model of the repository synchronisation code of DolphinAutoUpdater     *)
(* (src/src/main.rs): pull_repo = do_fetch ; do_merge, with fast_forward  *)
(* and normal_merge, and the clone progress callbacks with print.          *)
(*                                                                         *)
(* Commits are numbered in creation order.  A tree maps each file to the   *)
(* id of the commit that last wrote it (0: the file is absent).            *)
(***************************************************************************)
EXTENDS Integers, Sequences, FiniteSets, TLC

\* ------------------------------------------------------------------ bounds
MaxCommits == 4
MaxObjects == 2
MaxDeltas == 1
MaxItems == 2

\* --------------------------------------------------------------- constants
Files == {"a", "b"}
Branches == {"main", "dev"}
NoCommit == 0
EmptyTree == [f \in Files |-> 0]
NoIdx == [tree |-> EmptyTree, conflicts |-> {}]

VARIABLES
    \* the commit graph (all commits that exist, local or remote)
    parents,      \* commit id -> sequence of parent ids
    tree,         \* commit id -> tree
    remoteTip,    \* tip of origin's branch main
    \* the local repository
    store,        \* commit ids present in the local object store
    refs,         \* branch name -> commit id (NoCommit: the ref does not exist)
    HEAD,         \* the branch HEAD designates
    FETCH_HEAD,   \* the fetch head (NoCommit: none yet)
    wt,           \* working tree: file -> content
    \* one pull_repo call
    pc,           \* "idle", "fetch", "merge", "done"
    fetch_commit, \* what do_fetch returned
    idx,          \* the merge index normal_merge computed in this sync
    ret,          \* "none", "true", "false", "err"
    path,         \* the branch of do_merge taken
    ran,          \* backend calls made in this sync, in order
    failed,       \* backend calls of this sync that failed
    pre,          \* the repository at the start of this sync
    last,         \* outcome of the latest sync, "none" once anything else happened
    prev,         \* value of last when this sync started
    built,        \* the build consumer started a rebuild after this sync
    \* one clone_repo call
    state,        \* the shared State of the progress callbacks
    cb,           \* the callback that ran last: "none", "transfer", "checkout"
    out,          \* the status line print produced last
    panicked,     \* the process panicked in a callback
    given,        \* the State print was called with last
    blank,        \* print wrote its empty line before the status line
    \* the transfer_progress callback of one do_fetch call
    fstats,       \* the statistics the backend reported last
    fout          \* the line do_fetch printed last

repoVars == <<parents, tree, remoteTip, store, refs, HEAD, FETCH_HEAD, wt>>
syncVars == <<pc, fetch_commit, idx, ret, path, ran, failed, pre, last, prev, built>>
cloneVars == <<state, cb, out, panicked, given, blank, fstats, fout>>
vars == <<repoVars, syncVars, cloneVars>>

\* ------------------------------------------------------------ commit graph
Commits == DOMAIN parents

Range(s) == {s[i] : i \in DOMAIN s}

RECURSIVE Ancestors(_)
\* c and every commit reachable from it through parent links
Ancestors(c) ==
    IF c = NoCommit THEN {}
    ELSE {c} \cup UNION {Ancestors(p) : p \in Range(parents[c])}

\* git_merge_base: a best common ancestor, NoCommit when the histories are unrelated
merge_base(a, b) ==
    LET common == Ancestors(a) \cap Ancestors(b)
        best == {c \in common : \A d \in common \ {c} : c \notin Ancestors(d)}
    IN IF best = {} THEN NoCommit ELSE CHOOSE c \in best : TRUE

\* git_merge_trees: the three-way merge of two trees against their ancestor
merge_trees(anc, ours, theirs) ==
    LET clash == {f \in Files : /\ ours[f] # theirs[f]
                                /\ ours[f] # anc[f]
                                /\ theirs[f] # anc[f]}
    IN [tree |-> [f \in Files |->
                     IF ours[f] = theirs[f] THEN ours[f]
                     ELSE IF ours[f] = anc[f] THEN theirs[f]
                     ELSE ours[f]],
        conflicts |-> clash]

has_conflicts_never(i) == FALSE

has_conflicts(i) == i.conflicts # {}

HeadTip == refs[HEAD]

\* the tree of a commit; nothing is checked out of a branch without commits
TreeOf(c) == IF c = NoCommit THEN EmptyTree ELSE tree[c]

\* --------------------------------------------------------------- helpers
Pos(seq, x) == CHOOSE i \in DOMAIN seq : seq[i] = x

\* the calls of seq made when the call fp fails ("none": no call fails)
Upto(seq, fp) == IF fp = "none" THEN seq ELSE SubSeq(seq, 1, Pos(seq, fp))

\* the call s of seq was made and succeeded
Did(seq, fp, s) == s \in Range(seq) /\ (fp = "none" \/ Pos(seq, s) < Pos(seq, fp))

FailSet(fp) == IF fp = "none" THEN {} ELSE {fp}

Snapshot == [refs |-> refs, HEAD |-> HEAD, commits |-> Commits, wt |-> wt,
             store |-> store, FETCH_HEAD |-> FETCH_HEAD]

\* ------------------------------------------------------ backend primitives
\* git_merge_analysis against HEAD: the set of flags it reports
merge_analysis_no_uptodate(ours, theirs) ==
    IF ours = NoCommit THEN {"fast_forward", "unborn"}
    ELSE IF merge_base(ours, theirs) = ours /\ ours # theirs
         THEN {"fast_forward", "normal"}
    ELSE {"normal"}

merge_analysis(ours, theirs) ==
    IF ours = NoCommit THEN {"fast_forward", "unborn"}
    ELSE IF merge_base(ours, theirs) = theirs THEN {"up_to_date"}
    ELSE IF merge_base(ours, theirs) = ours THEN {"fast_forward", "normal"}
    ELSE {"normal"}

is_fast_forward_born_only(a) == a = {"fast_forward", "normal"}

is_fast_forward(a) == "fast_forward" \in a

is_normal(a) == "normal" \in a

\* what remote.fetch(["main"]) does to the local branch refs: nothing
fetch_refs_into_branch(r, tip) == [r EXCEPT !["main"] = tip]

fetch_refs(r, tip) == r

\* Reference::set_target / Repository::reference(force): point branch b at id
set_target_noop(r, b, id) == r

set_target(r, b, id) == [r EXCEPT ![b] = id]

\* the parent list normal_merge hands to repo.commit
merge_parents_swapped(local, remote) == <<remote, local>>

merge_parents(local, remote) == <<local, remote>>

\* checkout with force: the files of S are overwritten with the target's
\* (S = Files when the checkout completes, a subset when it fails midway)
force_checkout_unforced(w, target, S) ==
    [f \in Files |-> IF f \in S /\ w[f] >= 0 THEN target[f] ELSE w[f]]

force_checkout(w, target, S) == [f \in Files |-> IF f \in S THEN target[f] ELSE w[f]]

\* checkout with the default (safe) strategy: a file is rewritten only where
\* the target differs from the baseline (HEAD's tree)
safe_checkout(w, baseline, target, S) ==
    [f \in Files |-> IF f \in S /\ target[f] # baseline[f] THEN target[f] ELSE w[f]]

ConflictMark == -1

\* checkout_index of a conflicted merge index: conflict markers are written
\* for the conflicting files, the cleanly merged ones are updated safely
conflict_checkout(w, baseline, i, S) ==
    [f \in Files |-> IF f \in S /\ f \in i.conflicts THEN ConflictMark
                     ELSE safe_checkout(w, baseline, i.tree, S)[f]]

NextId == Cardinality(Commits) + 1

\* ------------------------------------------------------------------- Init
InitGraph ==
    /\ parents = (1 :> <<>>)
    /\ tree = (1 :> [f \in Files |-> 1])
    /\ remoteTip = 1

\* a repository cloned at the first commit, or a freshly initialised one
InitRepo ==
    /\ InitGraph
    /\ FETCH_HEAD = NoCommit
    /\ HEAD = "main"
    /\ \/ /\ store = {1}
          /\ refs = [b \in Branches |-> IF b = "main" THEN 1 ELSE NoCommit]
          /\ wt = [f \in Files |-> 1]
       \/ /\ store = {}
          /\ refs = [b \in Branches |-> NoCommit]
          /\ wt = EmptyTree

InitSync ==
    /\ pc = "idle"
    /\ fetch_commit = NoCommit
    /\ idx = NoIdx
    /\ ret = "none"
    /\ path = "none"
    /\ ran = <<>>
    /\ failed = {}
    /\ pre = Snapshot
    /\ last = "none"
    /\ prev = "none"
    /\ built = FALSE

NoProgress == [known |-> FALSE, total_objects |-> 0, received_objects |-> 0,
               indexed_objects |-> 0, total_deltas |-> 0, indexed_deltas |-> 0,
               received_bytes |-> 0]

InitClone ==
    /\ state = [progress |-> NoProgress, total |-> 0, current |-> 0,
                path |-> "", newline |-> FALSE]
    /\ cb = "none"
    /\ out = [kind |-> "none"]
    /\ panicked = FALSE
    /\ given = state
    /\ blank = FALSE
    /\ fstats = NoProgress @@ [local_objects |-> 0]
    /\ fout = [kind |-> "none"]

Init == InitRepo /\ InitSync /\ InitClone

\* ------------------------------------------------------------ environment
\* a new commit is pushed to origin/main by someone else
RemoteCommit ==
    /\ pc = "idle"
    /\ NextId < MaxCommits
    /\ \E f \in Files :
          /\ parents' = parents @@ (NextId :> <<remoteTip>>)
          /\ tree' = tree @@ (NextId :> [tree[remoteTip] EXCEPT ![f] = NextId])
    /\ remoteTip' = NextId
    /\ last' = "none"
    /\ built' = FALSE
    /\ UNCHANGED <<store, refs, HEAD, FETCH_HEAD, wt>>
    /\ UNCHANGED <<pc, fetch_commit, idx, ret, path, ran, failed, pre, prev>>
    /\ UNCHANGED cloneVars

\* the operator commits on the branch HEAD designates
LocalCommit ==
    /\ pc = "idle"
    /\ NextId < MaxCommits
    /\ \E f \in Files :
          LET base == IF HeadTip = NoCommit THEN EmptyTree ELSE tree[HeadTip]
              t == [base EXCEPT ![f] = NextId]
          IN /\ parents' = parents @@
                   (NextId :> IF HeadTip = NoCommit THEN <<>> ELSE <<HeadTip>>)
             /\ tree' = tree @@ (NextId :> t)
             /\ wt' = t
    /\ refs' = [refs EXCEPT ![HEAD] = NextId]
    /\ store' = store \cup {NextId}
    /\ last' = "none"
    /\ built' = FALSE
    /\ UNCHANGED <<remoteTip, HEAD, FETCH_HEAD>>
    /\ UNCHANGED <<pc, fetch_commit, idx, ret, path, ran, failed, pre, prev>>
    /\ UNCHANGED cloneVars

\* the operator switches HEAD to the other branch, creating it if need be
SwitchBranch ==
    /\ pc = "idle"
    /\ \E b \in Branches \ {HEAD} :
          LET r == IF refs[b] = NoCommit THEN [refs EXCEPT ![b] = HeadTip] ELSE refs
          IN /\ refs' = r
             /\ HEAD' = b
             /\ wt' = IF r[b] = NoCommit THEN wt ELSE tree[r[b]]
    /\ last' = "none"
    /\ built' = FALSE
    /\ UNCHANGED <<parents, tree, remoteTip, store, FETCH_HEAD>>
    /\ UNCHANGED <<pc, fetch_commit, idx, ret, path, ran, failed, pre, prev>>
    /\ UNCHANGED cloneVars

DirtyMark == -2

\* the operator edits one file of the working tree without committing
EditWorkTree ==
    /\ pc = "idle"
    /\ \A g \in Files : wt[g] # DirtyMark
    /\ \E f \in Files : wt' = [wt EXCEPT ![f] = DirtyMark]
    /\ last' = "none"
    /\ built' = FALSE
    /\ UNCHANGED <<parents, tree, remoteTip, store, refs, HEAD, FETCH_HEAD>>
    /\ UNCHANGED <<pc, fetch_commit, idx, ret, path, ran, failed, pre, prev>>
    /\ UNCHANGED cloneVars

\* ---------------------------------------------------------------- pull_repo
FetchSteps == <<"fetch", "find_fetch_head", "annotate">>
ApplySteps == <<"set_target", "set_head", "checkout_head">>
CreateSteps == <<"reference", "set_head", "checkout_head">>
MergeSteps(conflicted) ==
    <<"head", "find_commit", "merge_base", "merge_trees">> \o
    (IF conflicted THEN <<"checkout_index">>
     ELSE <<"write_tree", "signature", "find_parents", "commit", "checkout_head">>)

\* the outcomes of a checkout: complete when the call succeeded, any part of
\* the files when the call failed, nothing when it was not reached
Written(seq, fp, call) ==
    IF Did(seq, fp, call) THEN {Files}
    ELSE IF fp = call THEN SUBSET Files
    ELSE {{}}

\* the sync about to start would have to create a merge commit
NeedsCommit ==
    /\ HeadTip # NoCommit
    /\ merge_analysis(HeadTip, remoteTip) = {"normal"}

\* pull_repo is entered: find_remote("origin")
PullStart ==
    /\ pc = "idle"
    /\ NextId <= MaxCommits \/ ~NeedsCommit
    /\ \E ok \in BOOLEAN :
          /\ pc' = IF ok THEN "fetch" ELSE "done"
          /\ ret' = IF ok THEN "none" ELSE "err"
          /\ failed' = IF ok THEN {} ELSE {"find_remote"}
    /\ ran' = <<"find_remote">>
    /\ pre' = Snapshot
    /\ prev' = last
    /\ built' = FALSE
    /\ UNCHANGED <<repoVars, fetch_commit, idx, path, last, cloneVars>>

\* do_fetch: remote.fetch, then FETCH_HEAD as an annotated commit
do_fetch ==
    /\ pc = "fetch"
    /\ \E fp \in Range(FetchSteps) \cup {"none"} :
          LET fetched == Did(FetchSteps, fp, "fetch")
              fh == IF fetched THEN remoteTip ELSE FETCH_HEAD
          IN /\ store' = IF fetched THEN store \cup Ancestors(remoteTip) ELSE store
             /\ FETCH_HEAD' = fh
             /\ refs' = IF fetched THEN fetch_refs(refs, remoteTip) ELSE refs
             /\ fetch_commit' = IF fp = "none" THEN fh ELSE NoCommit
             /\ pc' = IF fp = "none" THEN "merge" ELSE "done"
             /\ ret' = IF fp = "none" THEN ret ELSE "err"
             /\ ran' = ran \o Upto(FetchSteps, fp)
             /\ failed' = failed \cup FailSet(fp)
    /\ UNCHANGED <<parents, tree, remoteTip, HEAD, wt>>
    /\ UNCHANGED <<idx, path, pre, last, prev, built>>
    /\ UNCHANGED cloneVars

\* do_merge, merge_analysis fails
AnalysisFails ==
    /\ pc = "merge"
    /\ pc' = "done"
    /\ ret' = "err"
    /\ ran' = Append(ran, "merge_analysis")
    /\ failed' = failed \cup {"merge_analysis"}
    /\ UNCHANGED <<repoVars, fetch_commit, idx, path, pre, last, prev, built>>
    /\ UNCHANGED cloneVars

\* do_merge, fast-forward branch, refs/heads/main found: fast_forward
fast_forward ==
    /\ pc = "merge"
    /\ is_fast_forward(merge_analysis(HeadTip, fetch_commit))
    /\ refs["main"] # NoCommit
    /\ \E fp \in Range(ApplySteps) \cup {"none"} :
       \E S \in Written(ApplySteps, fp, "checkout_head") :
          LET r == IF Did(ApplySteps, fp, "set_target")
                   THEN set_target(refs, "main", fetch_commit) ELSE refs
              h == IF Did(ApplySteps, fp, "set_head") THEN "main" ELSE HEAD
          IN /\ refs' = r
             /\ HEAD' = h
             /\ wt' = force_checkout(wt, TreeOf(r[h]), S)
             /\ ret' = IF fp = "none" THEN "true" ELSE "err"
             /\ ran' = ran \o <<"merge_analysis", "find_reference">> \o Upto(ApplySteps, fp)
             /\ failed' = failed \cup FailSet(fp)
    /\ path' = "ff"
    /\ pc' = "done"
    /\ UNCHANGED <<parents, tree, remoteTip, store, FETCH_HEAD>>
    /\ UNCHANGED <<fetch_commit, idx, pre, last, prev, built>>
    /\ UNCHANGED cloneVars

\* do_merge, fast-forward branch, find_reference returned Err(_): the ref is
\* created at the fetched commit.  Err(_) is the missing ref, and also any
\* other failure of the lookup of a ref that exists
create_branch ==
    /\ pc = "merge"
    /\ is_fast_forward(merge_analysis(HeadTip, fetch_commit))
    /\ \E fp \in Range(CreateSteps) \cup {"none"} :
       \E S \in Written(CreateSteps, fp, "checkout_head") :
          LET r == IF Did(CreateSteps, fp, "reference")
                   THEN set_target(refs, "main", fetch_commit) ELSE refs
              h == IF Did(CreateSteps, fp, "set_head") THEN "main" ELSE HEAD
          IN /\ refs' = r
             /\ HEAD' = h
             /\ wt' = force_checkout(wt, TreeOf(r[h]), S)
             /\ ret' = IF fp = "none" THEN "true" ELSE "err"
             /\ ran' = ran \o <<"merge_analysis", "find_reference">> \o Upto(CreateSteps, fp)
             /\ failed' = failed \cup FailSet(fp) \cup
                          (IF refs["main"] # NoCommit THEN {"find_reference"} ELSE {})
    /\ path' = "create"
    /\ pc' = "done"
    /\ UNCHANGED <<parents, tree, remoteTip, store, FETCH_HEAD>>
    /\ UNCHANGED <<fetch_commit, idx, pre, last, prev, built>>
    /\ UNCHANGED cloneVars

\* do_merge, normal branch: normal_merge(HEAD's commit, fetch_commit)
normal_merge ==
    /\ pc = "merge"
    /\ ~is_fast_forward(merge_analysis(HeadTip, fetch_commit))
    /\ is_normal(merge_analysis(HeadTip, fetch_commit))
    /\ LET local == HeadTip
           remote == fetch_commit
           base == merge_base(local, remote)
           i == IF base = NoCommit THEN NoIdx
                ELSE merge_trees(tree[base], tree[local], tree[remote])
           steps == MergeSteps(has_conflicts(i))
           co == IF has_conflicts(i) THEN "checkout_index" ELSE "checkout_head"
       IN \E fp \in Range(steps) \cup {"none"} :
          \E S \in Written(steps, fp, co) :
             \* unrelated histories: merge_base reports an error
             /\ base = NoCommit => fp \in {"head", "find_commit", "merge_base"}
             /\ LET merged == Did(steps, fp, "merge_trees")
                    committed == Did(steps, fp, "commit")
                IN /\ idx' = IF merged THEN i ELSE NoIdx
                   /\ path' = IF ~merged THEN "normal"
                              ELSE IF has_conflicts(i) THEN "conflict" ELSE "merge"
                   /\ parents' = IF committed
                                 THEN parents @@ (NextId :> merge_parents(local, remote))
                                 ELSE parents
                   /\ tree' = IF committed THEN tree @@ (NextId :> i.tree) ELSE tree
                   /\ store' = IF committed THEN store \cup {NextId} ELSE store
                   /\ refs' = IF committed THEN set_target(refs, HEAD, NextId) ELSE refs
                   /\ wt' = IF ~merged THEN wt
                            ELSE IF has_conflicts(i)
                            THEN conflict_checkout(wt, tree[local], i, S)
                            ELSE IF committed
                            THEN safe_checkout(wt, i.tree, i.tree, S)
                            ELSE wt
                   /\ ret' = IF fp = "none" THEN "true" ELSE "err"
                   /\ ran' = ran \o <<"merge_analysis">> \o Upto(steps, fp)
                   /\ failed' = failed \cup FailSet(fp)
    /\ pc' = "done"
    /\ UNCHANGED <<remoteTip, HEAD, FETCH_HEAD>>
    /\ UNCHANGED <<fetch_commit, pre, last, prev, built>>
    /\ UNCHANGED cloneVars

\* do_merge, neither fast-forward nor normal: Ok(false)
up_to_date ==
    /\ pc = "merge"
    /\ ~is_fast_forward(merge_analysis(HeadTip, fetch_commit))
    /\ ~is_normal(merge_analysis(HeadTip, fetch_commit))
    /\ ret' = "false"
    /\ path' = "uptodate"
    /\ ran' = Append(ran, "merge_analysis")
    /\ pc' = "done"
    /\ UNCHANGED <<repoVars, fetch_commit, idx, failed, pre, last, prev, built>>
    /\ UNCHANGED cloneVars

do_merge == AnalysisFails \/ fast_forward \/ create_branch \/ normal_merge \/ up_to_date

\* the caller of pull_repo: rebuild when it returned Ok(true)
Consume ==
    /\ pc = "done"
    /\ built' = (ret = "true")
    /\ last' = IF ret = "err" THEN "err" ELSE path
    /\ pc' = "idle"
    \* the locals of the call are gone
    /\ fetch_commit' = NoCommit
    /\ idx' = NoIdx
    /\ ret' = "none"
    /\ path' = "none"
    /\ ran' = <<>>
    /\ failed' = {}
    /\ pre' = Snapshot
    /\ prev' = "none"
    /\ UNCHANGED repoVars
    /\ UNCHANGED cloneVars

pull_repo == PullStart \/ do_fetch \/ do_merge \/ Consume

Next == RemoteCommit \/ LocalCommit \/ SwitchBranch \/ EditWorkTree \/ pull_repo

Spec == Init /\ [][Next]_vars

\* --------------------------------------------------------------- clone_repo
\* the transfer statistics the backend can report
Stats ==
    {[known |-> TRUE, total_objects |-> t, received_objects |-> r,
      indexed_objects |-> i, total_deltas |-> td, indexed_deltas |-> d,
      received_bytes |-> 512 * r] :
        t \in 0..MaxObjects, r \in 0..MaxObjects, i \in 0..MaxObjects,
        td \in 0..MaxDeltas, d \in 0..MaxDeltas}

\* the counters of one transfer never decrease and stay within their totals
StatsFollow(old, new) ==
    /\ new.received_objects <= new.total_objects
    /\ new.indexed_objects <= new.received_objects
    /\ new.indexed_deltas <= new.total_deltas
    /\ new.total_objects >= old.total_objects
    /\ new.received_objects >= old.received_objects
    /\ new.indexed_objects >= old.indexed_objects
    /\ new.total_deltas >= old.total_deltas
    /\ new.indexed_deltas >= old.indexed_deltas

Paths == {"", "a", "b"}

\* print: progress.as_ref().unwrap() panics on None, the two percentages
\* divide by total_objects
print_panics(st) ==
    \/ ~st.progress.known
    \/ st.progress.total_objects = 0

\* print: the line written, for a state print does not panic on
print_line_flagged(st) ==
    IF st.progress.received_objects = st.progress.total_objects
    THEN [kind |-> "resolving", indexed_deltas |-> st.progress.indexed_deltas,
          total_deltas |-> st.progress.total_deltas, first |-> ~st.newline]
    ELSE [kind |-> "downloading", received_objects |-> st.progress.received_objects]

print_line(st) ==
    LET stats == st.progress
        network_pct == (100 * stats.received_objects) \div stats.total_objects
        index_pct == (100 * stats.indexed_objects) \div stats.total_objects
        co_pct == IF st.total > 0 THEN (100 * st.current) \div st.total ELSE 0
        kbytes == stats.received_bytes \div 1024
    IN IF stats.received_objects = stats.total_objects
       THEN [kind |-> "resolving", indexed_deltas |-> stats.indexed_deltas,
             total_deltas |-> stats.total_deltas]
       ELSE [kind |-> "downloading", network_pct |-> network_pct, kbytes |-> kbytes,
             received_objects |-> stats.received_objects,
             total_objects |-> stats.total_objects, index_pct |-> index_pct,
             indexed_objects |-> stats.indexed_objects, co_pct |-> co_pct,
             current |-> st.current, total |-> st.total, path |-> st.path]

\* print: state.newline is set the first time the resolving line is written
print_newline(st) ==
    st.newline \/ st.progress.received_objects = st.progress.total_objects

\* print: the empty line written before the first resolving line
print_blank(st) ==
    ~st.newline /\ st.progress.received_objects = st.progress.total_objects

\* print(&mut state), called by a callback that has stored st
print(st) ==
    /\ given' = st
    /\ IF print_panics(st)
       THEN /\ panicked' = TRUE
            /\ state' = st
            /\ out' = [kind |-> "none"]
            /\ blank' = FALSE
       ELSE /\ panicked' = FALSE
            /\ state' = [st EXCEPT !.newline = print_newline(st)]
            /\ out' = print_line(st)
            /\ blank' = print_blank(st)

\* the transfer_progress callback of clone_repo
TransferProgress ==
    /\ ~panicked
    /\ \E stats \in Stats :
          /\ StatsFollow(state.progress, stats)
          /\ print([state EXCEPT !.progress = stats])
    /\ cb' = "transfer"
    /\ UNCHANGED <<repoVars, syncVars, fstats, fout>>

\* the checkout progress callback of clone_repo
CheckoutProgress ==
    /\ ~panicked
    /\ \E p \in Paths, total \in 0..MaxItems, cur \in 0..MaxItems :
          /\ cur <= total
          /\ cur >= state.current
          /\ total >= state.total
          /\ print([state EXCEPT !.path = p, !.current = cur, !.total = total])
    /\ cb' = "checkout"
    /\ UNCHANGED <<repoVars, syncVars, fstats, fout>>

clone_repo == TransferProgress \/ CheckoutProgress

InitCloneRun ==
    /\ InitGraph
    /\ FETCH_HEAD = NoCommit
    /\ HEAD = "main"
    /\ store = {}
    /\ refs = [b \in Branches |-> NoCommit]
    /\ wt = EmptyTree
    /\ InitSync
    /\ InitClone

SpecClone == InitCloneRun /\ [][clone_repo]_vars

\* ------------------------------------------- do_fetch's progress callback
\* the statistics of a fetch: those of a transfer and the local objects used
FetchStats ==
    {s @@ [local_objects |-> l] : s \in Stats, l \in 0..MaxObjects}

\* the line the transfer_progress closure of do_fetch prints
fetch_line(stats) ==
    IF stats.received_objects = stats.total_objects
    THEN [kind |-> "resolving", indexed_deltas |-> stats.indexed_deltas,
          total_deltas |-> stats.total_deltas]
    ELSE IF stats.total_objects > 0
    THEN [kind |-> "received", received_objects |-> stats.received_objects,
          total_objects |-> stats.total_objects,
          indexed_objects |-> stats.indexed_objects,
          received_bytes |-> stats.received_bytes]
    ELSE [kind |-> "empty"]

\* the line do_fetch prints from remote.stats() once the fetch has returned
fetch_summary(stats) ==
    IF stats.local_objects > 0
    THEN [kind |-> "summary_local", indexed_objects |-> stats.indexed_objects,
          total_objects |-> stats.total_objects,
          received_bytes |-> stats.received_bytes,
          local_objects |-> stats.local_objects]
    ELSE [kind |-> "summary", indexed_objects |-> stats.indexed_objects,
          total_objects |-> stats.total_objects,
          received_bytes |-> stats.received_bytes]

Fetching == fout.kind \notin {"summary", "summary_local"}

\* the transfer_progress callback of do_fetch
FetchProgress ==
    /\ pc = "fetch"
    /\ Fetching
    /\ \E stats \in FetchStats :
          /\ StatsFollow(fstats, stats)
          /\ stats.local_objects >= fstats.local_objects
          /\ fstats' = stats
          /\ fout' = fetch_line(stats)
    /\ UNCHANGED <<repoVars, syncVars, state, cb, out, panicked, given, blank>>

\* do_fetch after remote.fetch returned: the summary of remote.stats()
FetchSummary ==
    /\ pc = "fetch"
    /\ Fetching
    /\ fout' = fetch_summary(fstats)
    /\ UNCHANGED <<repoVars, syncVars, state, cb, out, panicked, given, blank, fstats>>

\* a do_fetch call on a cloned repository, up to its summary line
InitFetchRun ==
    /\ InitGraph
    /\ FETCH_HEAD = NoCommit
    /\ HEAD = "main"
    /\ store = {1}
    /\ refs = [b \in Branches |-> IF b = "main" THEN 1 ELSE NoCommit]
    /\ wt = [f \in Files |-> 1]
    /\ pc = "fetch"
    /\ fetch_commit = NoCommit
    /\ idx = NoIdx
    /\ ret = "none"
    /\ path = "none"
    /\ ran = <<"find_remote">>
    /\ failed = {}
    /\ pre = Snapshot
    /\ last = "none"
    /\ prev = "none"
    /\ built = FALSE
    /\ InitClone

SpecFetch == InitFetchRun /\ [][FetchProgress \/ FetchSummary]_vars

\* ------------------------------------------------------------ properties
LastCall == ran[Len(ran)]

OkOutcomes == {"ff", "create", "merge", "conflict", "uptodate"}

\* C1: a sync whose three-way merge produced a merge index that reports
\* conflicts creates no commit and leaves every branch ref, HEAD and the
\* commit HEAD's branch points at as they were when the sync started.
C1_ConflictKeepsRefs ==
    (pc = "done" /\ idx.conflicts # {}) =>
        /\ Commits = pre.commits
        /\ refs = pre.refs
        /\ HEAD = pre.HEAD
        /\ refs[HEAD] = pre.refs[pre.HEAD]

C1_Witness ==
    /\ pc = "done"
    /\ idx.conflicts # {}
    /\ ret = "true"
    /\ LastCall = "checkout_index"

\* C2: the outcome of a sync whose merge ended with conflicts is told apart
\* from the content-integrated outcomes by its caller: the build consumer,
\* which rebuilds on Ok(true), starts no rebuild after a conflicted merge.
C2_ConflictNoRebuild ==
    (pc = "idle" /\ last = "conflict") => ~built

\* C3: after fast_forward returned Ok on an existing refs/heads/main, that ref
\* is the fetched remote tip, HEAD designates it, no commit was created and
\* the object store holds what the fetch left in it.
C3_FastForward ==
    (pc = "done" /\ path = "ff" /\ ret = "true") =>
        /\ refs["main"] = fetch_commit
        /\ fetch_commit = remoteTip
        /\ HEAD = "main"
        /\ Commits = pre.commits
        /\ store = pre.store \cup Ancestors(fetch_commit)

C3_Witness ==
    /\ pc = "done"
    /\ path = "ff"
    /\ ret = "true"
    /\ pre.refs["main"] # NoCommit
    /\ pre.refs["main"] # refs["main"]
    /\ "set_target" \in Range(ran)

\* C4: a three-way merge without conflicts creates exactly one commit when it
\* completes (none before the commit call, never more than one); the new
\* commit's parents are <<local tip at sync start, fetched tip>> in that order
\* and its tree is the tree of the merge index computed from the merge base.
C4_MergeCommit ==
    (pc = "done" /\ path = "merge") =>
        LET new == Commits \ pre.commits
            local == pre.refs[pre.HEAD]
            base == merge_base(local, fetch_commit)
        IN /\ Cardinality(new) <= 1
           /\ ret = "true" => Cardinality(new) = 1
           /\ \A n \in new :
                 /\ parents[n] = <<local, fetch_commit>>
                 /\ tree[n] = idx.tree
                 /\ tree[n] = merge_trees(tree[base], tree[local],
                                          tree[fetch_commit]).tree
                 /\ refs[HEAD] = n

C4_Witness ==
    /\ pc = "done"
    /\ path = "merge"
    /\ ret = "true"
    /\ Commits # pre.commits
    /\ idx.tree # tree[pre.refs[pre.HEAD]]
    /\ idx.tree # tree[fetch_commit]

\* C5 as stated: after any successful first sync, a second sync with nothing
\* in between that returns Ok returns false and changes no ref, HEAD or commit.
C5_Original ==
    (pc = "done" /\ prev \in OkOutcomes /\ ret # "err") =>
        /\ ret = "false"
        /\ refs = pre.refs
        /\ HEAD = pre.HEAD
        /\ Commits = pre.commits

\* C5 amended: a second sync right after a successful one changes no branch
\* ref, HEAD or commit; when it returns Ok it returns false (up to date) if
\* the first sync fast-forwarded, merged or was up to date, and it finds the
\* same conflicts again (returning true) if the first ended with conflicts.
C5_Idempotent ==
    (pc = "done" /\ prev \in OkOutcomes) =>
        /\ refs = pre.refs
        /\ HEAD = pre.HEAD
        /\ Commits = pre.commits
        /\ store = pre.store
        /\ (ret # "err" /\ prev # "conflict") => (ret = "false" /\ path = "uptodate")
        /\ (ret # "err" /\ prev = "conflict") => (ret = "true" /\ path = "conflict")

C5_Witness ==
    /\ pc = "done"
    /\ prev = "merge"
    /\ ret = "false"

\* C8: a fetch, successful or failed, leaves the working tree, HEAD and every
\* branch ref as they were; a successful one returns the commit the fetch head
\* was set to, which is the tip of the remote branch.
C8_FetchFrame ==
    /\ (pc = "merge" \/ (pc = "done" /\ LastCall \in Range(FetchSteps))) =>
          /\ refs = pre.refs
          /\ HEAD = pre.HEAD
          /\ wt = pre.wt
    /\ pc = "merge" =>
          /\ fetch_commit = FETCH_HEAD
          /\ fetch_commit = remoteTip
          /\ fetch_commit \in store

C8_Witness ==
    /\ pc = "merge"
    /\ FETCH_HEAD # pre.FETCH_HEAD
    /\ store # pre.store
    /\ refs["main"] # remoteTip

\* C9: a failed fetch ends the sync with an error after exactly one fetch
\* attempt and with the repository untouched, and every backend call that
\* fails is the last call of the sync, which returns an error.
C9_FailuresPropagate ==
    pc = "done" =>
        /\ "fetch" \in failed =>
              /\ ret = "err"
              /\ ran = <<"find_remote", "fetch">>
              /\ refs = pre.refs /\ HEAD = pre.HEAD /\ wt = pre.wt
        /\ failed # {} => (ret = "err" /\ LastCall \in failed)

\* C10: a sync that fails inside fast_forward or normal_merge leaves the
\* branch refs and HEAD where they were when the sync started.
C10_NoPartialMutation ==
    (pc = "done" /\ ret = "err" /\ path \in {"ff", "merge"}) =>
        /\ refs = pre.refs
        /\ HEAD = pre.HEAD

\* C6: rendering after a transfer snapshot with total_objects = 0 does not
\* fail, and a status line is produced.
C6_ZeroTotalRenders ==
    (cb = "transfer" /\ state.progress.total_objects = 0) =>
        /\ ~panicked
        /\ out.kind # "none"

\* C7: whatever the order of the two callbacks, also with a checkout callback
\* before the first transfer callback, the callback stores its snapshot and a
\* status line is rendered (transfer snapshots with total_objects = 0, the
\* case of C6, set aside).
C7_AnyInterleaving ==
    (cb # "none" /\ (state.progress.known => state.progress.total_objects > 0)) =>
        /\ ~panicked
        /\ out.kind # "none"

C12_MergeWorkTree ==
    (pc = "done" /\ path = "merge" /\ ret = "true") =>
        /\ refs[HEAD] \in Commits \ pre.commits
        /\ wt = tree[refs[HEAD]]

\* C13: the fetch callback renders the delta-resolution line exactly when
\* received_objects = total_objects and total_objects > 0, and the
\* transfer-phase line in every other case, total_objects = 0 included.
C13_PhaseLine ==
    (fout.kind \in {"resolving", "received", "empty"}) =>
        IF fstats.received_objects = fstats.total_objects /\ fstats.total_objects > 0
        THEN fout.kind = "resolving"
        ELSE fout.kind = "received"

\* C14 as stated: a render leaves every field of the progress state as the
\* callback stored it.
C14_RenderPure ==
    (cb # "none" /\ ~panicked) => state = given

\* C14 amended: a render leaves the transfer and checkout snapshots of the
\* progress state unchanged; the only field it writes is newline, which it
\* sets the first time it renders the delta-resolution line, after an empty
\* line; rendering again from the state it left produces the same status line.
C14_RenderLine ==
    cb # "none" =>
        /\ state.progress = given.progress
        /\ state.total = given.total
        /\ state.current = given.current
        /\ state.path = given.path
        /\ given.newline => state.newline
        /\ state.newline # given.newline => (out.kind = "resolving" /\ blank)
        /\ blank => ~given.newline
        /\ ~panicked => out = print_line(state)

C14_Witness ==
    /\ cb = "transfer"
    /\ ~panicked
    /\ out.kind = "resolving"
    /\ blank
    /\ state.newline
    /\ ~given.newline

\* C15: when the analysis permits a fast-forward and refs/heads/main does not
\* exist, the sync takes the branch that creates the ref; the missing ref is
\* no failure, and when no backend call fails the ref is created at the
\* fetched tip, HEAD designates it, the working tree is checked out with
\* force and the sync returns true.
C15_CreateMissingBranch ==
    (/\ pc = "done"
     /\ "merge_analysis" \in Range(ran) \ failed
     /\ pre.refs["main"] = NoCommit
     /\ "fast_forward" \in merge_analysis(pre.refs[pre.HEAD], fetch_commit)) =>
        /\ path = "create"
        /\ "find_reference" \notin failed
        /\ failed = {} =>
              /\ ret = "true"
              /\ ran = <<"find_remote">> \o FetchSteps
                       \o <<"merge_analysis", "find_reference">> \o CreateSteps
              /\ refs["main"] = fetch_commit
              /\ HEAD = "main"
              /\ wt = tree[fetch_commit]

C15_Witness ==
    /\ pc = "done"
    /\ path = "create"
    /\ pre.refs["main"] = NoCommit
    /\ pre.HEAD = "dev"
    /\ ret = "true"
    /\ refs["main"] = remoteTip

\* C16: history only grows: whenever a sync moves a local branch ref, the
\* commit the ref pointed at before the sync is the new target or one of its
\* ancestors.
C16_HistoryGrows ==
    pc = "done" =>
        \A b \in Branches :
            (pre.refs[b] # NoCommit /\ refs[b] # pre.refs[b]) =>
                pre.refs[b] \in Ancestors(refs[b])

\* C17: after a sync that reports integrated content by a fast-forward or a
\* merge without conflicts, HEAD designates refs/heads/main and the fetched
\* tip is the tip of refs/heads/main or one of its ancestors.
C17_TrackedBranch ==
    (pc = "done" /\ ret = "true" /\ path \in {"ff", "create", "merge"}) =>
        /\ HEAD = "main"
        /\ fetch_commit \in Ancestors(refs["main"])

====
